---- MODULE Spec2Model ----
(***************************************************************************)
(* iotest: an open-loop load generator for a key-value storage backend.    *)
(*                                                                         *)
(* The model follows src/src/tester/tester.rs (the driver: Tester::test,   *)
(* test_try, test_qps, the histogram helpers) and                          *)
(* src/src/client/localfs.rs (the local-filesystem client and handler).    *)
(*                                                                         *)
(* Strings are sequences of one-character strings.  Times are integers in  *)
(* microseconds.  The driver is one process whose position is pc; every    *)
(* spawned operation sequence is a record of tasks with its own pc.        *)
(***************************************************************************)
EXTENDS Integers, Sequences, FiniteSets, TLC

VARIABLES
    pc,               \* position of the driver (Tester::test)
    mutex,            \* Tester.client: Arc<Mutex<C>>, "free" or its holder
    prefix,           \* LocalFsClient.prefix
    auto_increment,   \* LocalFsClient.auto_increment
    dir,              \* whether the prefix directory exists
    fs,               \* the files under the prefix directory: path -> content
    now,              \* the last value read from the system clock
    c,                \* index into Rates of the current campaign
    begin_time,       \* test_qps: begin_time
    last_start_time,  \* test_qps: last_start_time
    this_start_time,  \* test_qps: this_start_time
    missed_sleep,     \* test_qps: missed_sleep
    i,                \* test_qps: loop counter _i
    tasks,            \* test_qps: handlers, one record per spawned sequence
    joined,           \* test_qps: number of handlers already awaited
    write_histogram,  \* test_qps: write_histogram
    read_histogram,   \* test_qps: read_histogram
    delete_histogram, \* test_qps: delete_histogram
    try_key,          \* test_try: key
    try_pending,      \* test_try: bytes handed to write_all, not yet in the file
    issued,           \* history: every key gen_unique_key returned, in order
    sched,            \* history: this campaign's scheduled times, in order
    sleep_for,        \* test_qps: the duration handed to sleep (0: not asleep)
    reported,         \* history: rates of the campaigns whose report was printed
    cause,            \* history: why the driver panicked ("" while it has not)
    samples,          \* histogram harness: the samples recorded so far
    st                \* store harness: the last operation and its result

vars == << pc, mutex, prefix, auto_increment, dir, fs, now, c, begin_time,
           last_start_time, this_start_time, missed_sleep, i, tasks, joined,
           write_histogram, read_histogram, delete_histogram, try_key,
           try_pending, issued, sched, sleep_for, reported, cause, samples,
           st >>

----------------------------------------------------------------------------
(* Bounds of the model.                                                    *)

\* test_qps: ttime_s, the length of a campaign in seconds.  The source sets
\* 30 (tester.rs:73); the model runs shorter campaigns.
ttime_s == 1

\* Tester::test: the target rates of the campaigns, in order.  The source
\* runs 10, 20, 50, 100, 200, 500, 1000 (tester.rs:48-54); the model runs
\* two campaigns at small rates.
Rates == << 1, 2 >>

\* How far the system clock may have advanced between two readings (us).
Delays == { 0, 500000, 1000000 }

\* The latencies a sequence may measure (us), as (write, read, delete):
\* within the edges, or all above the largest edge.
Latencies == { << 724, 45, 33 >>, << 200000, 190000, 185364 >> }

\* Process ids the prefix may be built from.
Pids == { 7 }

----------------------------------------------------------------------------
(* Strings.                                                                *)

DigitChars == << "0", "1", "2", "3", "4", "5", "6", "7", "8", "9" >>

\* format!("{}", n) for an unsigned integer: its decimal digits.
RECURSIVE ToDigits(_)
ToDigits(n) ==
    IF n < 10 THEN << DigitChars[n + 1] >>
    ELSE Append(ToDigits(n \div 10), DigitChars[(n % 10) + 1])

\* LocalFsClient::new: format!("/tmp/iotest_{}/", process::id()).
NewPrefix(pid) ==
    << "/", "t", "m", "p", "/", "i", "o", "t", "e", "s", "t", "_" >>
        \o ToDigits(pid) \o << "/" >>

\* Tester::new: the payload, random alphanumeric characters; main asks for
\* 16 MiB of them.
random_string == << "q", "Z", "7" >>

\* test_try: String::from("Hello World").
HelloWorld == << "H", "e", "l", "l", "o", " ", "W", "o", "r", "l", "d" >>

----------------------------------------------------------------------------
(* LocalFsClient.                                                          *)

\* The key gen_unique_key returns: format!("{}{}", prefix, auto_increment).
GenKeyResult(p, n) == p \o ToDigits(n)

\* Faulty variant: the counter is not advanced.
GenKeyCounter_stuck(n) == n

\* The counter gen_unique_key leaves behind: auto_increment += 1.  The run
\* draws 1 + 30 * 1880 keys, far from the u32 range.
GenKeyCounter(n) == n + 1

----------------------------------------------------------------------------
(* LocalFsClientHandler.  Each operation takes the directory flag and the  *)
(* files and returns [ok, value, fs].                                      *)

\* write: File::create(key) creates or truncates the file; it fails when
\* the directory is missing.  write_all hands the bytes to a blocking
\* write that runs in the background (tokio::fs::File) and returns; nothing
\* flushes the file, so the bytes reach it in a later step (Flushed).
HandlerWrite(d, files, key) ==
    IF d THEN [ok |-> TRUE,
               fs |-> [k \in DOMAIN files \cup {key} |->
                          IF k = key THEN << >> ELSE files[k]]]
    ELSE [ok |-> FALSE, fs |-> files]

\* The background write of value lands: the file, if still linked, holds it.
Flushed(files, key, value) ==
    IF key \in DOMAIN files THEN [files EXCEPT ![key] = value] ELSE files

\* read: File::open(key) fails when there is no such file; read_to_string
\* returns the whole content.
HandlerRead(files, key) ==
    IF key \in DOMAIN files THEN [ok |-> TRUE, value |-> files[key]]
    ELSE [ok |-> FALSE, value |-> << >>]

\* Faulty variant: the file is reported removed and stays.
HandlerDelete_keeps(files, key) ==
    IF key \in DOMAIN files THEN [ok |-> TRUE, fs |-> files]
    ELSE [ok |-> FALSE, fs |-> files]

\* Faulty variant: a missing file is not an error (rm -f).
HandlerDelete_lenient(files, key) ==
    [ok |-> TRUE, fs |-> [k \in DOMAIN files \ {key} |-> files[k]]]

\* delete: remove_file(key) fails when there is no such file.
HandlerDelete(files, key) ==
    IF key \in DOMAIN files
    THEN [ok |-> TRUE, fs |-> [k \in DOMAIN files \ {key} |-> files[k]]]
    ELSE [ok |-> FALSE, fs |-> files]

----------------------------------------------------------------------------
(* Histograms (metrics_util::Histogram over BUCKETS).                      *)

\* BUCKETS: 32, 32*SQRT_2, 64, ..., 131072, 131072*SQRT_2.  Samples are
\* whole microseconds (as_micros() as f64), so sample <= edge compares the
\* sample with the edge rounded down; the odd edges are written rounded down.
BUCKETS ==
    << 32, 45, 64, 90, 128, 181, 256, 362, 512, 724, 1024, 1448, 2048, 2896,
       4096, 5792, 8192, 11585, 16384, 23170, 32768, 46340, 65536, 92681,
       131072, 185363 >>

BUCKETS_LEN == Len(BUCKETS)

\* create_histogram: every cumulative count zero, no sample.
create_histogram == [buckets |-> [b \in 1..BUCKETS_LEN |-> 0], count |-> 0]

\* Faulty variant: the sample is placed but not counted.
Record_nocount(h, sample) ==
    [buckets |-> [b \in 1..BUCKETS_LEN |->
                     IF sample <= BUCKETS[b] THEN h.buckets[b] + 1
                     ELSE h.buckets[b]],
     count |-> h.count]

\* Faulty variant: only the first edge >= sample counts the sample.
Record_first(h, sample) ==
    [buckets |-> [b \in 1..BUCKETS_LEN |->
                     IF sample <= BUCKETS[b]
                        /\ (b = 1 \/ sample > BUCKETS[b - 1])
                     THEN h.buckets[b] + 1
                     ELSE h.buckets[b]],
     count |-> h.count + 1]

\* Faulty variant: a sample equal to an edge is not counted by that edge.
Record_strict(h, sample) ==
    [buckets |-> [b \in 1..BUCKETS_LEN |->
                     IF sample < BUCKETS[b] THEN h.buckets[b] + 1
                     ELSE h.buckets[b]],
     count |-> h.count + 1]

\* Histogram::record: one more sample, counted by every edge >= sample.
Record(h, sample) ==
    [buckets |-> [b \in 1..BUCKETS_LEN |->
                     IF sample <= BUCKETS[b] THEN h.buckets[b] + 1
                     ELSE h.buckets[b]],
     count |-> h.count + 1]

\* show_historgram, text: the rows printed, every second bucket from the
\* first (step_by(2)).
Shown == { b \in 1..BUCKETS_LEN : b % 2 = 1 }

\* show_historgram, text: the count before row b, that of the row printed
\* before it (0 before the first).
ShownBefore(h, b) == IF b = 1 THEN 0 ELSE h.buckets[b - 2]

\* show_historgram, text: dots_num of row b,
\* ((bar.1 - before) * 100 + sum - 1) / sum.
DotsNum(h, b) == ((h.buckets[b] - ShownBefore(h, b)) * 100 + h.count - 1) \div h.count

\* show_historgram, chart data: the count before bucket b (0 before the first).
Before(h, b) == IF b = 1 THEN 0 ELSE h.buckets[b - 1]

\* show_historgram, chart data: height of bar b,
\* ((bar.1.1 - before) * 10000 + sum - 1) / sum.
Height(h, b) == ((h.buckets[b] - Before(h, b)) * 10000 + h.count - 1) \div h.count

Max(S) == CHOOSE x \in S : \A y \in S : y <= x

\* show_historgram, chart data: max_height, from 0.
MaxHeight(h) == Max({0} \cup { Height(h, b) : b \in 1..BUCKETS_LEN })

\* show_historgram panics when a divisor is zero: sum (lines 204, 220) or
\* max_height (line 229).
ShowPanics(h) == h.count = 0 \/ MaxHeight(h) = 0

----------------------------------------------------------------------------
(* Pacing arithmetic of test_qps.                                          *)

\* Faulty variant: the interval taken in milliseconds.
Interval_millis(r) == 1000 \div r

\* Duration::from_micros(1_000_000 / qps), in microseconds.
Interval(r) == 1000000 \div r

\* this_start_time = last_start_time + interval.
ThisStartTime(last, r) == last + Interval(r)

\* Faulty variant: a scheduled time equal to the clock still sleeps.
MustSleep_ge(this, t) == this >= t

\* if this_start_time > now { sleep } else { missed_sleep += 1 }.
MustSleep(this, t) == this > t

\* The number of iterations of the loop: ttime_s * qps.
NumSeq(r) == ttime_s * r

\* Faulty variant: after a miss the schedule restarts from the clock.
NextLast_resync(this, t) == IF t > this THEN t ELSE this

\* last_start_time = this_start_time.
NextLast(this, t) == this

\* Faulty variant: the campaigns run from the highest rate down.
qps_descending == Rates[Len(Rates) + 1 - c]

\* The rate of the current campaign: test calls test_qps with 10, 20, 50,
\* 100, 200, 500, 1000, in this order; the model runs Rates.
qps == Rates[c]

Running == pc \notin { "done", "panicked" }

\* The store harness before its first operation: no result yet, no bytes in
\* flight, no key deleted.
NoOp == [op |-> "", key |-> << >>, ok |-> TRUE, value |-> << >>,
         pending |-> {}, deleted |-> {}]

----------------------------------------------------------------------------
\* main, lines 11-12: LocalFsClient::new and Tester::new; nothing has run.
Constructed ==
    /\ mutex = "free"
    /\ prefix \in { NewPrefix(pid) : pid \in Pids }
    /\ auto_increment = 0
    /\ dir = FALSE
    /\ fs = << >>
    /\ now = 0
    /\ c = 1
    /\ begin_time = 0
    /\ last_start_time = 0
    /\ this_start_time = 0
    /\ missed_sleep = 0
    /\ i = 0
    /\ tasks = << >>
    /\ joined = 0
    /\ write_histogram = create_histogram
    /\ read_histogram = create_histogram
    /\ delete_histogram = create_histogram
    /\ try_key = << >>
    /\ try_pending = FALSE
    /\ issued = << >>
    /\ sched = << >>
    /\ sleep_for = 0
    /\ reported = << >>
    /\ cause = ""
    /\ samples = << >>
    /\ st = NoOp

Init ==
    /\ pc = "init"
    /\ Constructed

----------------------------------------------------------------------------
(* The driver: Tester::test.                                               *)

\* Faulty variant: the guard is not kept.
Acquire_none(m) == m

\* What lock().await leaves in the mutex: the caller holds it.
Acquire(m) == "driver"

\* Faulty variant: the guard outlives the function (mem::forget).
Release_kept(m) == m

\* What dropping the guard leaves in the mutex: nobody holds it.
Release(m) == "free"

\* Faulty variant: the clock can go backwards.
ClockRead_backwards(t) == { t - d : d \in Delays }

\* A read of the system clock: the clock never goes backwards.
ClockRead(t) == { t + d : d \in Delays }

\* Faulty variant: the failure is logged and the run returns normally.
Panic_return(why) ==
    /\ pc' = "done"
    /\ cause' = why

\* A panic in the driver (unwrap, assert!, expect_err, arithmetic): the
\* process ends abnormally.
Panic(why) ==
    /\ pc' = "panicked"
    /\ cause' = why

driverVars == << c, begin_time, last_start_time, this_start_time, missed_sleep,
                 i, joined, sched, sleep_for, reported >>
\* The histograms, and the variables only the harnesses write.
histVars == << write_histogram, read_histogram, delete_histogram, samples, st >>
clientVars == << prefix, auto_increment, issued >>

\* test, lines 39-42: lock the client, init (create the prefix directory
\* if it is missing), drop the guard.
ClientInit ==
    /\ pc = "init"
    /\ mutex = "free"
    /\ dir' = TRUE
    /\ pc' = "try_lock"
    /\ UNCHANGED << mutex, fs, now, tasks, try_key, try_pending, cause >>
    /\ UNCHANGED << driverVars, histVars, clientVars >>

\* test_try, line 59: self.client.lock().await.
TryLock ==
    /\ pc = "try_lock"
    /\ mutex = "free"
    /\ mutex' = Acquire(mutex)
    /\ pc' = "try_write"
    /\ UNCHANGED << dir, fs, now, tasks, try_key, try_pending, cause >>
    /\ UNCHANGED << driverVars, histVars, clientVars >>

\* test_try, lines 60-62: gen_unique_key, handler, write(key, "Hello World").
TryWrite ==
    /\ pc = "try_write"
    /\ LET key == GenKeyResult(prefix, auto_increment)
           r == HandlerWrite(dir, fs, key)
       IN  /\ auto_increment' = GenKeyCounter(auto_increment)
           /\ issued' = Append(issued, key)
           /\ try_key' = key
           /\ fs' = r.fs
           /\ IF r.ok
              THEN pc' = "try_read" /\ try_pending' = TRUE /\ UNCHANGED cause
              ELSE Panic("write") /\ UNCHANGED try_pending
    /\ UNCHANGED << mutex, prefix, dir, now, tasks >>
    /\ UNCHANGED << driverVars, histVars >>

\* The background write of the smoke test's bytes lands in the file.
TryFlush ==
    /\ Running
    /\ try_pending
    /\ fs' = Flushed(fs, try_key, HelloWorld)
    /\ try_pending' = FALSE
    /\ UNCHANGED << pc, mutex, dir, now, tasks, try_key, cause >>
    /\ UNCHANGED << driverVars, histVars, clientVars >>

\* test_try, lines 63-64: read(key).unwrap(), assert!(value == "Hello World").
TryRead ==
    /\ pc = "try_read"
    /\ LET r == HandlerRead(fs, try_key)
       IN  IF ~r.ok THEN Panic("read")
           ELSE IF r.value # HelloWorld THEN Panic("assert")
           ELSE pc' = "try_delete" /\ UNCHANGED cause
    /\ UNCHANGED << mutex, dir, fs, now, tasks, try_key, try_pending >>
    /\ UNCHANGED << driverVars, histVars, clientVars >>

\* test_try, line 65: delete(key).unwrap().  Bytes still in flight go to the
\* unlinked file.
TryDelete ==
    /\ pc = "try_delete"
    /\ LET r == HandlerDelete(fs, try_key)
       IN  /\ fs' = r.fs
           /\ IF r.ok
              THEN pc' = "try_verify" /\ try_pending' = FALSE /\ UNCHANGED cause
              ELSE Panic("delete") /\ UNCHANGED try_pending
    /\ UNCHANGED << mutex, dir, now, tasks, try_key >>
    /\ UNCHANGED << driverVars, histVars, clientVars >>

\* test_try, lines 66-67: read(key).expect_err(..); the function returns and
\* the guard is dropped.
TryVerify ==
    /\ pc = "try_verify"
    /\ IF HandlerRead(fs, try_key).ok
       THEN Panic("expect_err") /\ UNCHANGED mutex
       ELSE pc' = "qps_lock" /\ mutex' = Release(mutex) /\ UNCHANGED cause
    /\ UNCHANGED << dir, fs, now, tasks, try_key, try_pending >>
    /\ UNCHANGED << driverVars, histVars, clientVars >>

----------------------------------------------------------------------------
(* The driver: Tester::test_qps.                                           *)

\* test_qps, lines 70-87: lock the client, read the clock, reset the
\* campaign's variables.
BeginCampaign ==
    /\ pc = "qps_lock"
    /\ mutex = "free"
    /\ mutex' = Acquire(mutex)
    /\ \E t \in ClockRead(now) :
          /\ now' = t
          /\ begin_time' = t
          /\ last_start_time' = t
    /\ missed_sleep' = 0
    /\ i' = 0
    /\ tasks' = << >>
    /\ joined' = 0
    /\ sched' = << >>
    /\ sleep_for' = 0
    /\ pc' = "pace"
    /\ UNCHANGED << dir, fs, c, this_start_time, reported, try_key, try_pending,
                    cause >>
    /\ UNCHANGED << histVars, clientVars >>

\* A sequence as it is spawned: about to write.
NewTask(key) ==
    [ key |-> key, pc |-> "write", pending |-> FALSE, why |-> "",
      write_latency |-> 0, read_latency |-> 0, delete_latency |-> 0 ]

\* Faulty variant: closed loop, the driver spawns only once the earlier sequences
\* have returned.
Spawn_await(key) ==
    /\ \A n \in 1..Len(tasks) : tasks[n].pc \in { "done", "panicked" }
    /\ tasks' = Append(tasks, NewTask(key))

\* tokio::spawn(..), handlers.push(handler): the sequence starts on its own;
\* the driver does not wait for it.
Spawn(key) == tasks' = Append(tasks, NewTask(key))

\* test_qps, lines 100-130: the rest of an iteration after the wait or the
\* miss: advance the schedule, draw a key, spawn the sequence, loop.  After
\* the last iteration the histograms are created (lines 134-136).
Dispatch(this, t) ==
    /\ last_start_time' = NextLast(this, t)
    /\ LET key == GenKeyResult(prefix, auto_increment)
       IN  /\ auto_increment' = GenKeyCounter(auto_increment)
           /\ issued' = Append(issued, key)
           /\ Spawn(key)
    /\ i' = i + 1
    /\ IF i + 1 < NumSeq(qps)
       THEN pc' = "pace" /\ UNCHANGED << write_histogram, read_histogram,
                                         delete_histogram >>
       ELSE /\ pc' = "join"
            /\ write_histogram' = create_histogram
            /\ read_histogram' = create_histogram
            /\ delete_histogram' = create_histogram

\* test_qps, lines 92-96: the scheduled time is ahead of the clock: the
\* driver asks to sleep until it.
PaceSleep ==
    /\ pc = "pace"
    /\ \E t \in ClockRead(now) :
          LET this == ThisStartTime(last_start_time, qps)
          IN  /\ MustSleep(this, t)
              /\ now' = t
              /\ this_start_time' = this
              /\ sched' = Append(sched, this)
              /\ sleep_for' = this - t
    /\ pc' = "sleeping"
    /\ UNCHANGED << mutex, dir, fs, c, begin_time, last_start_time, missed_sleep,
                    i, tasks, joined, reported, try_key, try_pending, cause >>
    /\ UNCHANGED << histVars, clientVars >>

\* The sleep ends, not before the time asked for; the iteration goes on.
Wake ==
    /\ pc = "sleeping"
    /\ now' = IF now < this_start_time THEN this_start_time ELSE now
    /\ sleep_for' = 0
    /\ Dispatch(this_start_time, now')
    /\ UNCHANGED << mutex, prefix, dir, fs, c, begin_time, this_start_time,
                    missed_sleep, joined, sched, reported, try_key,
                    try_pending, cause, samples, st >>

\* test_qps, lines 92-130: the scheduled time is not ahead of the clock: the
\* miss is counted and the iteration goes on without a wait.
PaceMiss ==
    /\ pc = "pace"
    /\ \E t \in ClockRead(now) :
          LET this == ThisStartTime(last_start_time, qps)
          IN  /\ ~MustSleep(this, t)
              /\ now' = t
              /\ this_start_time' = this
              /\ sched' = Append(sched, this)
              /\ missed_sleep' = missed_sleep + 1
              /\ Dispatch(this, t)
    /\ UNCHANGED << mutex, prefix, dir, fs, c, begin_time, joined, sleep_for,
                    reported, try_key, try_pending, cause, samples, st >>

\* Faulty variant: a sequence that panicked is passed over.
Joinable_any(t) == t.pc \in { "done", "panicked" }

\* handler.await: Ok(result) once the sequence has returned.
Joinable(t) == t.pc = "done"

\* handler.await: Err(JoinError) once the sequence has panicked.
Failed(t) == t.pc = "panicked"

\* The handle once awaited: its result has been moved out.
Taken(t) == [t EXCEPT !.write_latency = 0, !.read_latency = 0,
                      !.delete_latency = 0]

\* test_qps, lines 137-142, one iteration: handler.await.unwrap() and the
\* three record calls.
JoinOne ==
    /\ pc = "join"
    /\ joined < Len(tasks)
    /\ Joinable(tasks[joined + 1])
    /\ LET result == tasks[joined + 1]
       IN  /\ write_histogram' = Record(write_histogram, result.write_latency)
           /\ read_histogram' = Record(read_histogram, result.read_latency)
           /\ delete_histogram' = Record(delete_histogram, result.delete_latency)
    /\ tasks' = [tasks EXCEPT ![joined + 1] = Taken(@)]
    /\ joined' = joined + 1
    /\ pc' = IF joined + 1 = Len(tasks) THEN "report" ELSE "join"
    /\ UNCHANGED << mutex, dir, fs, now, c, begin_time, last_start_time,
                    this_start_time, missed_sleep, i, sched, sleep_for,
                    reported, try_key, try_pending, cause, samples, st >>
    /\ UNCHANGED clientVars

\* test_qps, line 138: handler.await.unwrap() on a sequence that panicked.
JoinPanic ==
    /\ pc = "join"
    /\ joined < Len(tasks)
    /\ Failed(tasks[joined + 1])
    /\ Panic("join")
    /\ UNCHANGED << mutex, dir, fs, now, tasks, try_key, try_pending >>
    /\ UNCHANGED << driverVars, histVars, clientVars >>

\* test_qps, lines 143-153, and test, lines 48-54: print the duration (the
\* clock read for it is used nowhere else) and the misses, show the three
\* histograms; the function returns, its locals and the guard are dropped
\* and the next campaign follows.
Report ==
    /\ pc = "report"
    /\ reported' = Append(reported, qps)
    /\ IF ShowPanics(write_histogram) \/ ShowPanics(read_histogram)
          \/ ShowPanics(delete_histogram)
       THEN /\ Panic("show")
            /\ UNCHANGED << mutex, c, tasks, begin_time, last_start_time,
                            this_start_time, missed_sleep, i, joined, sched,
                            write_histogram, read_histogram, delete_histogram >>
       ELSE /\ mutex' = Release(mutex)
            /\ tasks' = << >>
            /\ begin_time' = 0
            /\ last_start_time' = 0
            /\ this_start_time' = 0
            /\ missed_sleep' = 0
            /\ i' = 0
            /\ joined' = 0
            /\ sched' = << >>
            /\ write_histogram' = create_histogram
            /\ read_histogram' = create_histogram
            /\ delete_histogram' = create_histogram
            /\ UNCHANGED cause
            /\ IF c < Len(Rates)
               THEN c' = c + 1 /\ pc' = "qps_lock"
               ELSE c' = c /\ pc' = "done"
    /\ UNCHANGED << dir, fs, now, sleep_for, try_key, try_pending, samples, st >>
    /\ UNCHANGED clientVars

----------------------------------------------------------------------------
(* A spawned operation sequence: test_qps, lines 105-128.                  *)

taskFrame == << pc, mutex, dir, now, try_key, try_pending, cause >>

\* The sequence panics: unwrap, assert! or expect_err.
TaskPanic(n, why) ==
    tasks' = [tasks EXCEPT ![n].pc = "panicked", ![n].why = why]

\* Lines 108-110: write(key, random_string).unwrap(), timed.
TaskWrite(n) ==
    /\ Running
    /\ n \in 1..Len(tasks)
    /\ tasks[n].pc = "write"
    /\ LET r == HandlerWrite(dir, fs, tasks[n].key)
       IN  /\ fs' = r.fs
           /\ IF r.ok
              THEN tasks' = [tasks EXCEPT ![n].pc = "read",
                                          ![n].pending = TRUE]
              ELSE TaskPanic(n, "write")
    /\ UNCHANGED << taskFrame, driverVars, histVars, clientVars >>

\* The background write of the sequence's bytes lands in the file.
TaskFlush(n) ==
    /\ Running
    /\ n \in 1..Len(tasks)
    /\ tasks[n].pending
    /\ fs' = Flushed(fs, tasks[n].key, random_string)
    /\ tasks' = [tasks EXCEPT ![n].pending = FALSE]
    /\ UNCHANGED << taskFrame, driverVars, histVars, clientVars >>

\* Lines 112-115: read(key).unwrap(), timed; assert!(value == *random_string).
TaskRead(n) ==
    /\ Running
    /\ n \in 1..Len(tasks)
    /\ tasks[n].pc = "read"
    /\ LET r == HandlerRead(fs, tasks[n].key)
       IN  IF ~r.ok THEN TaskPanic(n, "read")
           ELSE IF r.value # random_string THEN TaskPanic(n, "assert")
           ELSE tasks' = [tasks EXCEPT ![n].pc = "delete"]
    /\ UNCHANGED << fs, taskFrame, driverVars, histVars, clientVars >>

\* Lines 117-119: delete(key).unwrap(), timed.  Bytes still in flight go to
\* the unlinked file.
TaskDelete(n) ==
    /\ Running
    /\ n \in 1..Len(tasks)
    /\ tasks[n].pc = "delete"
    /\ LET r == HandlerDelete(fs, tasks[n].key)
       IN  /\ fs' = r.fs
           /\ IF r.ok
              THEN tasks' = [tasks EXCEPT ![n].pc = "verify",
                                          ![n].pending = FALSE]
              ELSE TaskPanic(n, "delete")
    /\ UNCHANGED << taskFrame, driverVars, histVars, clientVars >>

\* Faulty variant: the sequence records its write latency itself, into a
\* histogram it shares with the driver.
TaskVerify_records(n) ==
    /\ Running
    /\ n \in 1..Len(tasks)
    /\ tasks[n].pc = "verify"
    /\ IF HandlerRead(fs, tasks[n].key).ok
       THEN TaskPanic(n, "expect_err") /\ UNCHANGED write_histogram
       ELSE \E l \in Latencies :
              /\ tasks' = [tasks EXCEPT ![n].pc = "done",
                                        ![n].write_latency = l[1],
                                        ![n].read_latency = l[2],
                                        ![n].delete_latency = l[3]]
              /\ write_histogram' = Record(write_histogram, l[1])
    /\ UNCHANGED << fs, taskFrame, driverVars, clientVars, read_histogram,
                    delete_histogram, samples, st >>

\* Lines 121-127: read(key).expect_err(..), then the result is returned: the
\* three differences of the instants taken around the operations.
TaskVerify(n) ==
    /\ Running
    /\ n \in 1..Len(tasks)
    /\ tasks[n].pc = "verify"
    /\ IF HandlerRead(fs, tasks[n].key).ok
       THEN TaskPanic(n, "expect_err")
       ELSE \E l \in Latencies :
              tasks' = [tasks EXCEPT ![n].pc = "done",
                                     ![n].write_latency = l[1],
                                     ![n].read_latency = l[2],
                                     ![n].delete_latency = l[3]]
    /\ UNCHANGED << fs, taskFrame, driverVars, histVars, clientVars >>

\* The sequences a campaign can have in flight.
TaskIds == 1..NumSeq(Max({ Rates[k] : k \in 1..Len(Rates) }))

DriverStep ==
    \/ ClientInit
    \/ TryLock
    \/ TryWrite
    \/ TryRead
    \/ TryDelete
    \/ TryVerify
    \/ BeginCampaign
    \/ PaceSleep
    \/ Wake
    \/ PaceMiss
    \/ JoinOne
    \/ JoinPanic
    \/ Report

TaskStep ==
    \E n \in TaskIds :
        \/ TaskWrite(n)
        \/ TaskRead(n)
        \/ TaskDelete(n)
        \/ TaskVerify(n)

FlushStep ==
    \/ TryFlush
    \/ \E n \in TaskIds : TaskFlush(n)

Next == DriverStep \/ TaskStep \/ FlushStep

Spec == Init /\ [][Next]_vars

\* The run under the runtime's scheduling: the driver and every spawned
\* sequence that can take a step eventually takes it (multi-threaded tokio
\* runtime), and a background write eventually lands (blocking pool).
FairSpec ==
    /\ Spec
    /\ WF_vars(DriverStep)
    /\ \A n \in TaskIds :
          WF_vars(TaskWrite(n) \/ TaskRead(n) \/ TaskDelete(n) \/ TaskVerify(n))
    /\ WF_vars(FlushStep)
----------------------------------------------------------------------------
(* The histogram on its own: any samples, recorded one after another.      *)

\* How many samples the harness records.
MaxSamples == 3

\* Samples (us): zero, on an edge, just past an edge, between the 24th and
\* the last edge, on the last edge, past it.
Samples == { 0, 32, 33, 92681, 100000, 185363, 185364, 1000000 }

InitHist ==
    /\ pc = "hist"
    /\ Constructed

\* write_histogram.record(sample), as in test_qps, line 139.
HistRecord ==
    /\ pc = "hist"
    /\ Len(samples) < MaxSamples
    /\ \E x \in Samples :
          /\ write_histogram' = Record(write_histogram, x)
          /\ samples' = Append(samples, x)
    /\ UNCHANGED << pc, mutex, dir, fs, now, tasks, try_key, try_pending, cause,
                    read_histogram, delete_histogram, st >>
    /\ UNCHANGED << driverVars, clientVars >>

NextHist == HistRecord

SpecHist == InitHist /\ [][NextHist]_vars

----------------------------------------------------------------------------
(* The backend on its own: LocalFsClient::init and the handler's write,    *)
(* read and delete on any key, in any order.  st holds the last operation, *)
(* its key and its result, the keys with bytes in flight and the keys      *)
(* deleted and not written since.                                          *)

\* How many keys the harness uses.
MaxKeys == 3

\* The keys the harness uses: the first MaxKeys gen_unique_key would return.
StoreKeys == { GenKeyResult(prefix, n) : n \in 0..(MaxKeys - 1) }

InitStore ==
    /\ pc = "store"
    /\ Constructed

storeFrame == << pc, mutex, now, tasks, try_key, try_pending, cause,
                 write_histogram, read_histogram, delete_histogram, samples >>

\* LocalFsClient::init: create the prefix directory if it is missing.
StoreInit ==
    /\ pc = "store"
    /\ ~dir
    /\ dir' = TRUE
    /\ st' = [st EXCEPT !.op = "init", !.key = << >>, !.ok = TRUE,
                        !.value = << >>]
    /\ UNCHANGED << fs, storeFrame, driverVars, clientVars >>

\* handler.write(key, "Hello World").
StoreWrite(key) ==
    /\ pc = "store"
    /\ LET r == HandlerWrite(dir, fs, key)
       IN  /\ fs' = r.fs
           /\ st' = [op |-> "write", key |-> key, ok |-> r.ok, value |-> << >>,
                     pending |-> IF r.ok THEN st.pending \cup {key}
                                 ELSE st.pending,
                     deleted |-> IF r.ok THEN st.deleted \ {key}
                                 ELSE st.deleted]
    /\ UNCHANGED << dir, storeFrame, driverVars, clientVars >>

\* The background write of a key's bytes lands in its file.
StoreFlush(key) ==
    /\ pc = "store"
    /\ key \in st.pending
    /\ fs' = Flushed(fs, key, HelloWorld)
    /\ st' = [st EXCEPT !.op = "flush", !.key = key, !.ok = TRUE,
                        !.value = << >>, !.pending = @ \ {key}]
    /\ UNCHANGED << dir, storeFrame, driverVars, clientVars >>

\* handler.read(key).
StoreRead(key) ==
    /\ pc = "store"
    /\ LET r == HandlerRead(fs, key)
       IN  st' = [st EXCEPT !.op = "read", !.key = key, !.ok = r.ok,
                           !.value = r.value]
    /\ UNCHANGED << dir, fs, storeFrame, driverVars, clientVars >>

\* handler.delete(key).  Bytes still in flight go to the unlinked file.
StoreDelete(key) ==
    /\ pc = "store"
    /\ LET r == HandlerDelete(fs, key)
       IN  /\ fs' = r.fs
           /\ st' = [op |-> "delete", key |-> key, ok |-> r.ok,
                     value |-> << >>,
                     pending |-> IF r.ok THEN st.pending \ {key}
                                 ELSE st.pending,
                     deleted |-> IF r.ok THEN st.deleted \cup {key}
                                 ELSE st.deleted]
    /\ UNCHANGED << dir, storeFrame, driverVars, clientVars >>

NextStore ==
    \/ StoreInit
    \/ \E key \in StoreKeys :
          \/ StoreWrite(key)
          \/ StoreFlush(key)
          \/ StoreRead(key)
          \/ StoreDelete(key)

SpecStore == InitStore /\ [][NextStore]_vars
----------------------------------------------------------------------------
(* Properties.                                                             *)

RECURSIVE SumTo(_, _)
SumTo(f, n) == IF n = 0 THEN 0 ELSE f[n] + SumTo(f, n - 1)

\* C1 as stated: the i-th sequence (i = 0..N-1) is scheduled at
\* campaign_start + i * (1/R): the first at campaign_start itself, the last
\* at campaign_start + (N-1)/R.
C1_Original ==
    \A k \in 1..Len(sched) :
        sched[k] = begin_time + (k - 1) * (1000000 \div Rates[c])

\* C1 amended: the i-th sequence (i = 0..N-1) is scheduled at
\* campaign_start + (i+1) * (1_000_000/R us): the first one interval after
\* campaign_start, the last at campaign_start + N intervals; the time the
\* driver sleeps until, and the schedule it keeps, are the last one computed.
C1_Schedule ==
    /\ Len(sched) <= ttime_s * Rates[c]
    /\ \A k \in 1..Len(sched) :
          sched[k] = begin_time + k * (1000000 \div Rates[c])
    /\ pc = "sleeping" => this_start_time = sched[Len(sched)]
    /\ pc = "sleeping" => Len(sched) = i + 1
    /\ pc \in { "pace", "join", "report" } =>
          /\ Len(sched) = i
          /\ last_start_time = begin_time + i * (1000000 \div Rates[c])
    /\ pc \in { "join", "report" } => Len(sched) = ttime_s * Rates[c]

\* C1 witness: the second campaign has scheduled all its sequences, the
\* first of them late.
C1_Witness ==
    /\ pc = "join"
    /\ c = 2
    /\ Len(sched) = ttime_s * Rates[c]
    /\ missed_sleep >= 1
    /\ sched[1] = begin_time + 500000

\* C2: within a campaign the scheduled times are strictly increasing and
\* consecutive ones differ by exactly 1_000_000/R us, whatever deadlines
\* were met or missed.
C2_Spacing ==
    \A k \in 1..(Len(sched) - 1) :
        /\ sched[k] < sched[k + 1]
        /\ sched[k + 1] - sched[k] = 1000000 \div Rates[c]

\* C2 witness: in the second campaign one deadline was met and the other
\* missed with the clock already past it.
C2_Witness ==
    /\ c = 2
    /\ Len(sched) = 2
    /\ missed_sleep = 1
    /\ now > sched[2]

\* C3: a pacing iteration either finds the clock before the scheduled time,
\* asks to sleep until it and leaves the miss counter alone (the sequence is
\* spawned when the sleep ends, not before the scheduled time), or finds the
\* clock at or past the scheduled time, counts exactly one miss and spawns
\* the sequence in the same step.  Nothing else changes the counter within a
\* campaign.
C3_WaitOrMiss ==
    [][ /\ Len(sched') = Len(sched) + 1 =>
            LET s == sched'[Len(sched')]
            IN  \/ /\ now' < s
                   /\ pc' = "sleeping"
                   /\ sleep_for' = s - now'
                   /\ missed_sleep' = missed_sleep
                   /\ Len(tasks') = Len(tasks)
                \/ /\ now' >= s
                   /\ pc' # "sleeping"
                   /\ missed_sleep' = missed_sleep + 1
                   /\ Len(tasks') = Len(tasks) + 1
        /\ pc = "sleeping" /\ pc' # "sleeping" =>
            /\ now' >= this_start_time
            /\ missed_sleep' = missed_sleep
            /\ Len(tasks') = Len(tasks) + 1
        /\ missed_sleep' # missed_sleep =>
            \/ Len(sched') = Len(sched) + 1
            \/ pc \in { "qps_lock", "report" } /\ missed_sleep' = 0
      ]_vars

\* C3 witness: the clock read equals the scheduled time; it counted as a
\* miss and the sequence was spawned.
C3_Witness ==
    /\ Len(sched) = 1
    /\ now = sched[1]
    /\ missed_sleep = 1
    /\ Len(tasks) = 1
    /\ pc = "pace"

\* C4: whatever the sequences in flight are doing, the driver's next pacing
\* step is enabled: the decision when it is at the top of the loop, the
\* spawn when its sleep is over.
C4_OpenLoop ==
    /\ pc = "pace" => ENABLED (PaceSleep \/ PaceMiss)
    /\ pc = "sleeping" => ENABLED Wake

\* C4 witness: every sequence of the second campaign has been spawned and
\* none has made a step.
C4_Witness ==
    /\ pc = "join"
    /\ c = 2
    /\ Len(tasks) = ttime_s * Rates[c]
    /\ \A n \in 1..Len(tasks) : tasks[n].pc = "write"

\* C5: the keys gen_unique_key has returned are pairwise distinct, the
\* smoke test's and those of every campaign; so are the keys of the
\* sequences of a campaign.
C5_UniqueKeys ==
    /\ \A a, b \in 1..Len(issued) : a # b => issued[a] # issued[b]
    /\ \A a, b \in 1..Len(tasks) : a # b => tasks[a].key # tasks[b].key
    /\ \A a \in 1..Len(tasks) : tasks[a].key # try_key
    /\ Len(issued) = auto_increment

\* C5 witness: the smoke test and both campaigns have drawn their keys.
C5_Witness ==
    /\ c = Len(Rates)
    /\ pc = "join"
    /\ Len(issued) = 1 + ttime_s * (Rates[1] + Rates[2])

\* C6: a key is generated only in a step of the driver that starts and ends
\* with the driver holding the client mutex; the mutex has at most one
\* holder; a step of a spawned sequence never generates a key.
C6_KeyGenLocked ==
    [][ /\ mutex \in { "free", "driver" }
        /\ auto_increment' # auto_increment =>
              /\ mutex = "driver"
              /\ mutex' = "driver"
              /\ pc \in { "try_write", "pace", "sleeping" }
              /\ \A n \in 1..Len(tasks) : tasks'[n] = tasks[n]
      ]_vars

\* C6 witness: the driver holds the mutex and is about to generate the next
\* key while an earlier sequence is in the middle of its operations.
C6_Witness ==
    /\ pc = "sleeping"
    /\ mutex = "driver"
    /\ Len(tasks) = 1
    /\ tasks[1].pc = "delete"

\* C7 as stated: under every interleaving each sequence's first read returns
\* the payload it wrote and its read after the delete fails: no sequence
\* ever fails an unwrap, its assert! or its expect_err.
C7_Original ==
    \A n \in 1..Len(tasks) : tasks[n].pc # "panicked"

\* What does hold of the sequences: one fails only at its assert!, on a
\* file that is there (its own create made it) and does not hold the payload
\* yet (its own write was not flushed); no step of another sequence makes a
\* read, a delete or the read after the delete go wrong.
SequenceFailsOnlyOnOwnWrite ==
    \A n \in 1..Len(tasks) :
        tasks[n].pc = "panicked" =>
            /\ tasks[n].why = "assert"
            /\ tasks[n].key \in DOMAIN fs
            /\ tasks[n].pending \/ fs[tasks[n].key] = random_string

\* C8: when a campaign reaches its report each of the three histograms has
\* counted exactly N = ttime_s * R samples; while the driver joins, each has
\* counted one sample per sequence joined so far.
C8_Counts ==
    /\ pc = "report" =>
          /\ write_histogram.count = ttime_s * Rates[c]
          /\ read_histogram.count = ttime_s * Rates[c]
          /\ delete_histogram.count = ttime_s * Rates[c]
    /\ pc = "join" =>
          /\ write_histogram.count = joined
          /\ read_histogram.count = joined
          /\ delete_histogram.count = joined

\* C8 witness: the second campaign is at its report; one of its sequences
\* measured latencies within the edges, the other above them.
C8_Witness ==
    /\ pc = "report"
    /\ c = 2
    /\ write_histogram.buckets[BUCKETS_LEN] = 1
    /\ delete_histogram.buckets[2] = 1

\* The bucket deltas show_historgram computes, and the recorded samples no
\* edge counts.
Deltas(h) == [b \in 1..BUCKETS_LEN |-> h.buckets[b] - Before(h, b)]
Overflow == Cardinality({ k \in 1..Len(samples) : samples[k] > BUCKETS[BUCKETS_LEN] })

\* C9 as stated, with the histogram's edges taken to be 24: the cumulative
\* counts do not decrease with the edge index, and the deltas of the 24
\* edges plus the overflow (the samples above the largest edge) make up the
\* number of samples recorded.
C9_Original ==
    /\ \A b \in 1..23 : write_histogram.buckets[b] <= write_histogram.buckets[b + 1]
    /\ SumTo(Deltas(write_histogram), 24) + Overflow = Len(samples)

\* C9 amended: the histogram has 26 edges; after any sequence of record
\* operations the cumulative counts do not decrease with the edge index, and
\* the deltas of the 26 edges plus the overflow make up the number of
\* samples recorded, which is the histogram's count.
C9_Conservation ==
    /\ DOMAIN write_histogram.buckets = 1..26
    /\ \A b \in 1..25 : write_histogram.buckets[b] <= write_histogram.buckets[b + 1]
    /\ \A b \in 1..26 : Deltas(write_histogram)[b] >= 0
    /\ SumTo(Deltas(write_histogram), 26) + Overflow = Len(samples)
    /\ write_histogram.count = Len(samples)

\* C9 witness: three samples, one past the 24th edge and within the 25th,
\* one within the 26th, one above all edges.
C9_Witness ==
    /\ Len(samples) = 3
    /\ write_histogram.buckets[24] = 0
    /\ write_histogram.buckets[25] = 1
    /\ write_histogram.buckets[26] = 2

\* C10 as stated: once a sequence has failed an assertion, no further
\* sequence is dispatched and no report is printed.
C10_Original ==
    [][ (\E n \in 1..Len(tasks) : tasks[n].pc = "panicked") =>
            /\ Len(issued') = Len(issued)
            /\ Len(reported') = Len(reported)
      ]_vars

\* C10 amended: a sequence that fails an assertion panics alone; the driver
\* may still dispatch the remaining sequences of the campaign, and the run
\* aborts when the join phase awaits the failed sequence: the driver never
\* joins past it, the campaign's report is never printed and no later
\* campaign starts.
C10_AbortAtJoin ==
    \A n \in 1..Len(tasks) :
        tasks[n].pc = "panicked" =>
            /\ pc \in { "pace", "sleeping", "join", "panicked" }
            /\ joined < n
            /\ Len(reported) = c - 1
            /\ pc = "panicked" =>
                  cause = "join" /\ tasks[joined + 1].pc = "panicked"

\* C10 witness: in the second campaign the first sequence was joined and
\* recorded, the second had failed its assertion, and the driver panicked
\* awaiting it.
C10_Witness ==
    /\ pc = "panicked"
    /\ cause = "join"
    /\ c = 2
    /\ joined = 1
    /\ tasks[2].pc = "panicked"
    /\ tasks[2].why = "assert"
    /\ reported = << 1 >>

----------------------------------------------------------------------------
(* C11: a failed sequence is never dropped.                                *)

SomeFailed == \E n \in 1..Len(tasks) : Failed(tasks[n])

\* C11: once a sequence of the campaign has failed, the failure stays on
\* record, the campaign never reaches its report, the next campaign never
\* starts and the run never completes normally; under fair scheduling the
\* driver eventually reaches the failed handler and the run ends abnormally,
\* at the join.
C11_NeverDropped ==
    /\ [][SomeFailed =>
             /\ SomeFailed'
             /\ pc' \notin { "report", "qps_lock", "done" }
             /\ c' = c
             /\ reported' = reported]_vars
    /\ SomeFailed ~> (pc = "panicked" /\ cause = "join")

\* C11 witness: the second sequence of the second campaign failed on its
\* assertion, the first one was joined, and the run ended at the join.
C11_Witness ==
    /\ c = 2
    /\ Len(tasks) = 2
    /\ joined = 1
    /\ tasks[2].pc = "panicked"
    /\ tasks[2].why = "assert"
    /\ pc = "panicked"
    /\ cause = "join"

----------------------------------------------------------------------------
(* C12: the order of the phases.                                           *)

SmokePcs == { "try_lock", "try_write", "try_read", "try_delete", "try_verify" }
SmokeCauses == { "write", "read", "assert", "delete", "expect_err" }

\* The number of sequences of the first k campaigns.
DispatchedBefore(k) == SumTo([j \in 1..Len(Rates) |-> NumSeq(Rates[j])], k)

\* The number of campaigns that returned.
Returned == IF pc = "done" THEN c ELSE c - 1

\* C12: the client is initialised before anything else; the smoke test runs
\* once, with the first key, and no campaign sequence exists before it has
\* passed; the campaigns run one at a time in the order of Rates, and every
\* sequence in flight belongs to the current campaign, all earlier campaigns
\* having dispatched all their sequences, joined them and reported.
C12_PhaseOrder ==
    /\ pc = "init" <=> ~dir
    /\ pc \in SmokePcs \cup { "init" }
          => tasks = << >> /\ reported = << >> /\ c = 1 /\ Len(issued) <= 1
    /\ pc = "panicked" /\ cause \in SmokeCauses
          => tasks = << >> /\ reported = << >> /\ c = 1 /\ Len(issued) = 1
    /\ Len(issued) >= 1
          => /\ issued[1] = try_key
             /\ \A k \in 2..Len(issued) : issued[k] # try_key
    /\ Len(tasks) > 0
          => /\ try_key \notin DOMAIN fs
             /\ ~try_pending
             /\ mutex = "driver"
    /\ reported = SubSeq(Rates, 1, Len(reported))
    /\ Len(reported) \in { c - 1, c }
    /\ Len(reported) = c => pc \in { "done", "panicked" } /\ joined = Len(tasks)
    /\ pc \notin SmokePcs \cup { "init" } /\ ~(pc = "panicked" /\ cause \in SmokeCauses)
          => /\ Len(issued) = 1 + DispatchedBefore(Returned) + Len(tasks)
             /\ \A n \in 1..Len(tasks) :
                   tasks[n].key = issued[1 + DispatchedBefore(Returned) + n]
    /\ pc = "done" => reported = Rates /\ tasks = << >>

\* C12 witness: the second campaign has a sequence in flight, after the first
\* campaign's two keys and the smoke test's one.
C12_Witness ==
    /\ c = 2
    /\ reported = << Rates[1] >>
    /\ Len(tasks) = 1
    /\ Len(issued) = 3
    /\ tasks[1].pc = "read"

----------------------------------------------------------------------------
(* C13: tombstones.                                                        *)

\* C13: a key deleted with success and not written since cannot be read: it
\* is not in the store and a read of it returns an error; a delete of a key
\* that is not in the store returns an error and leaves the store as it was.
C13_Tombstone ==
    /\ [](\A k \in st.deleted : k \notin DOMAIN fs /\ ~HandlerRead(fs, k).ok)
    /\ [][st'.op = "read" /\ st'.key \in st.deleted => ~st'.ok]_vars
    /\ [][st'.op = "delete" /\ st'.key \notin DOMAIN fs
             => ~st'.ok /\ fs' = fs /\ st'.deleted = st.deleted]_vars

\* C13 witness: a key was written and deleted, the other key is in the store
\* with its content, and a second delete of the first key returned an error.
C13_Witness ==
    /\ pc = "store"
    /\ st.op = "delete"
    /\ ~st.ok
    /\ st.key \in st.deleted
    /\ \E k \in StoreKeys \ {st.key} : k \in DOMAIN fs /\ fs[k] = HelloWorld

----------------------------------------------------------------------------
(* C14: who writes the histograms, and when.                               *)

\* A step that records a sample into some histogram.
Records ==
    \/ write_histogram'.count > write_histogram.count
    \/ read_histogram'.count > read_histogram.count
    \/ delete_histogram'.count > delete_histogram.count

\* C14 as stated: no sample is recorded while some sequence of the campaign
\* is still in flight.
C14_Original ==
    [][Records =>
         \A n \in 1..Len(tasks) : tasks[n].pc \in { "done", "panicked" }]_vars

\* C14: a sample is recorded only by the driver, in its join loop, after the
\* campaign's last dispatch: the step awaits the next handler in dispatch
\* order, whose sequence has returned, and records one sample into each of
\* the three histograms; the sequences behind it may still be in flight, and
\* no step of a sequence changes a histogram.
C14_RecordAtJoin ==
    [][Records =>
         /\ pc = "join"
         /\ i = NumSeq(qps)
         /\ Len(tasks) = NumSeq(qps)
         /\ joined' = joined + 1
         /\ \A n \in 1..joined' : tasks[n].pc = "done"
         /\ \A n \in 1..Len(tasks) : tasks'[n].pc = tasks[n].pc
         /\ write_histogram'.count = joined'
         /\ read_histogram'.count = joined'
         /\ delete_histogram'.count = joined']_vars

\* C14 witness: the first sequence's samples are in the histograms while the
\* second sequence has not written its file yet.
C14_Witness ==
    /\ pc = "join"
    /\ Len(tasks) = 2
    /\ joined = 1
    /\ write_histogram.count = 1
    /\ read_histogram.count = 1
    /\ delete_histogram.count = 1
    /\ tasks[2].pc = "write"

----------------------------------------------------------------------------
(* C15: where record places a sample.                                      *)

\* The sample the harness recorded last.
LastSample == samples'[Len(samples')]

\* C15: record(s) adds exactly 1 to the cumulative count of every edge e with
\* e >= s (a sample equal to an edge counts in it), leaves the count of every
\* edge e < s as it was, and adds 1 to the total; a sample above the largest
\* edge changes the total only.
C15_RecordPlacement ==
    [][Len(samples') = Len(samples) + 1 =>
         /\ \A b \in 1..BUCKETS_LEN :
               /\ BUCKETS[b] >= LastSample
                     => write_histogram'.buckets[b] = write_histogram.buckets[b] + 1
               /\ BUCKETS[b] < LastSample
                     => write_histogram'.buckets[b] = write_histogram.buckets[b]
         /\ write_histogram'.count = write_histogram.count + 1
         /\ LastSample > BUCKETS[BUCKETS_LEN]
               => write_histogram'.buckets = write_histogram.buckets]_vars

\* C15 witness: a sample on the first edge, a sample on the last edge and a
\* sample just above it: the first edge counts one, the last edge two, the
\* total is three.
C15_Witness ==
    /\ samples = << 32, 185363, 185364 >>
    /\ write_histogram.buckets[1] = 1
    /\ write_histogram.buckets[BUCKETS_LEN - 1] = 1
    /\ write_histogram.buckets[BUCKETS_LEN] = 2
    /\ write_histogram.count = 3

----------------------------------------------------------------------------
(* C16: termination.                                                       *)

\* The backend misbehaved: a sequence or the smoke test failed.
BackendFailed == SomeFailed \/ (pc = "panicked" /\ cause \in SmokeCauses)

\* C16 as stated: under fair scheduling, unless the backend misbehaves, the
\* run eventually completes normally, every campaign having dispatched its
\* ttime_s * R sequences, joined them and reported.
C16_Original ==
    <>(\/ BackendFailed
       \/ /\ pc = "done"
          /\ reported = Rates
          /\ Len(issued) = 1 + DispatchedBefore(Len(Rates)))

----------------------------------------------------------------------------
(* C19: the divisors of show_historgram.                                   *)

\* C19 as stated: when a campaign reports, each of its histograms has a
\* total and a maximum bar height other than zero, and no row of the text
\* output is wider than 100.
C19_Original ==
    pc = "report" =>
        \A h \in { write_histogram, read_histogram, delete_histogram } :
            /\ h.count >= 1
            /\ \A b \in Shown : DotsNum(h, b) <= 100
            /\ MaxHeight(h) # 0

----------------------------------------------------------------------------
(* C17: the pacing wait.                                                   *)

\* C17: whenever the driver is suspended in its pacing wait, the duration it
\* asked to sleep is positive and at most the interval 1_000_000 / R us,
\* whatever deadlines were met or missed before.
C17_WaitBounded ==
    /\ pc = "sleeping" => sleep_for > 0 /\ sleep_for <= Interval(qps)
    /\ pc # "sleeping" => sleep_for = 0

\* C17 witness: in the second campaign the first deadline was missed, and
\* the driver sleeps a whole interval before the second sequence.
C17_Witness ==
    /\ c = 2
    /\ pc = "sleeping"
    /\ missed_sleep = 1
    /\ Len(sched) = 2
    /\ sleep_for = Interval(qps)

----------------------------------------------------------------------------
(* C18: the client mutex.                                                  *)

\* Where the driver is inside a function that holds the guard.
GuardedPcs == { "try_write", "try_read", "try_delete", "try_verify",
                "pace", "sleeping", "join", "report" }

\* A step of sequence n.
TaskCanStep(n) ==
    ENABLED (TaskWrite(n) \/ TaskRead(n) \/ TaskDelete(n) \/ TaskVerify(n))

\* C18: only the driver ever holds the client mutex; it holds it through the
\* smoke test and through each campaign, join phase included, and has
\* released it wherever it is about to lock it, so that the lock is granted;
\* a sequence that has not returned can always take its next step, and the
\* join loop can always go on once the awaited sequence has ended.
C18_NoDeadlock ==
    /\ mutex \in { "free", "driver" }
    /\ pc \in GuardedPcs => mutex = "driver"
    /\ pc \in { "init", "try_lock", "qps_lock", "done" } => mutex = "free"
    /\ pc = "init" => ENABLED ClientInit
    /\ pc = "try_lock" => ENABLED TryLock
    /\ pc = "qps_lock" => ENABLED BeginCampaign
    /\ Running =>
          \A n \in 1..Len(tasks) :
              tasks[n].pc \notin { "done", "panicked" } => TaskCanStep(n)
    /\ pc = "join" =>
          \/ ENABLED JoinOne
          \/ ENABLED JoinPanic
          \/ TaskCanStep(joined + 1)

\* C18 witness: the second campaign was granted the lock the first campaign
\* released, and waits in its join loop for a sequence still in flight.
C18_Witness ==
    /\ c = 2
    /\ pc = "join"
    /\ mutex = "driver"
    /\ joined = 0
    /\ tasks[1].pc = "delete"

----------------------------------------------------------------------------
(* C20: no residue in the store.                                           *)

\* The keys whose owner is between its write and its delete, or has failed.
Owned ==
    { tasks[n].key : n \in { m \in 1..Len(tasks) :
                               tasks[m].pc \in { "read", "delete", "panicked" } } }
    \cup (IF pc \in { "try_read", "try_delete" }
             \/ (pc = "panicked" /\ cause \in SmokeCauses)
          THEN { try_key } ELSE {})

\* C20: a key is in the store only while the sequence that owns it is
\* between its write and its delete (or has failed there); the key of a
\* sequence that returned is absent; the store is empty when the smoke test
\* has passed, when a campaign reports and when the run is done.
C20_NoResidue ==
    /\ DOMAIN fs \subseteq Owned
    /\ \A n \in 1..Len(tasks) :
          tasks[n].pc \in { "verify", "done" } => tasks[n].key \notin DOMAIN fs
    /\ pc \in { "try_verify", "qps_lock", "report", "done" }
          => \A k \in 1..Len(issued) : issued[k] \notin DOMAIN fs
    /\ pc = "panicked" /\ cause = "show" => DOMAIN fs = {}

\* C20 witness: the second campaign reports; the keys of the smoke test and
\* of both campaigns were generated and the store holds none of them.
C20_Witness ==
    /\ c = 2
    /\ pc = "report"
    /\ Len(issued) = 1 + DispatchedBefore(2)
    /\ \A n \in 1..Len(tasks) : tasks[n].pc = "done"
    /\ DOMAIN fs = {}
====
